---- MODULE Spec2Model ----
(***************************************************************************)
(* Real-estate management dashboard: the auth context, the per-user        *)
(* localStorage store, the dashboard handlers (add / edit / delete         *)
(* property, record payment, send notification) and the date arithmetic    *)
(* they use, as one state machine of a single browser tab.                 *)
(***************************************************************************)
EXTENDS Integers, Sequences, FiniteSets, TLC

(***************************************************************************)
(* Bounds of the exploration.                                              *)
(***************************************************************************)
MaxProps == 2      \* properties ever created (crypto.randomUUID calls)
MaxPays == 1       \* payments ever recorded
MaxSends == 1      \* valid notification submissions ever made
MaxSignups == 1    \* accounts ever created next to property, payment and notification work
MaxAccounts == 2   \* accounts ever created
MaxFormProps == 1  \* properties created where every form input is explored
MaxOverlap == 2    \* valid notification submissions where sends may overlap

(***************************************************************************)
(* Calendar arithmetic of the JavaScript Date object, at hour resolution.  *)
(* A local wall-clock time is [y, m, d, h]; the browser's zone is a fixed  *)
(* offset tz in hours (UTC = local - tz).  An ISO date is <<y, m, d>>.     *)
(***************************************************************************)
NoDate == <<0, 0, 0>>

IsLeap(y) == (y % 4 = 0 /\ y % 100 /= 0) \/ y % 400 = 0

DaysInMonth(y, m) ==
  IF m = 2 THEN (IF IsLeap(y) THEN 29 ELSE 28)
  ELSE IF m \in {4, 6, 9, 11} THEN 30 ELSE 31

PrevDay(dt) ==
  IF dt[3] > 1 THEN <<dt[1], dt[2], dt[3] - 1>>
  ELSE IF dt[2] > 1 THEN <<dt[1], dt[2] - 1, DaysInMonth(dt[1], dt[2] - 1)>>
  ELSE <<dt[1] - 1, 12, 31>>

NextDay(dt) ==
  IF dt[3] < DaysInMonth(dt[1], dt[2]) THEN <<dt[1], dt[2], dt[3] + 1>>
  ELSE IF dt[2] < 12 THEN <<dt[1], dt[2] + 1, 1>>
  ELSE <<dt[1] + 1, 1, 1>>

\* Date.prototype.toISOString().split("T")[0]: the UTC calendar date of a
\* local wall-clock time in a zone tz hours east of UTC (|tz| < 24).
ToISODate(t, tz) ==
  LET utcHour == t.h - tz
      dt == <<t.y, t.m, t.d>>
  IN IF utcHour < 0 THEN PrevDay(dt)
     ELSE IF utcHour >= 24 THEN NextDay(dt)
     ELSE dt

\* new Date(year, monthIndex + 1, 1): local midnight on the first of the next
\* month, the month index rolling over into the next year.
FirstOfNextMonth(t) ==
  IF t.m = 12 THEN [y |-> t.y + 1, m |-> 1, d |-> 1, h |-> 0]
  ELSE [y |-> t.y, m |-> t.m + 1, d |-> 1, h |-> 0]

\* d.setMonth(d.getMonth() + 1): same local day and time in the next month; a
\* day the next month does not have rolls over into the month after it.
SetMonthPlusOne(t) ==
  LET ny == IF t.m = 12 THEN t.y + 1 ELSE t.y
      nm == IF t.m = 12 THEN 1 ELSE t.m + 1
      dim == DaysInMonth(ny, nm)
  IN IF t.d <= dim THEN [y |-> ny, m |-> nm, d |-> t.d, h |-> t.h]
     ELSE [y |-> ny, m |-> nm + 1, d |-> t.d - dim, h |-> t.h]

\* add-property-dialog: nextPaymentDue of a property added with an occupant.
AddNextPaymentDue(t, tz) == ToISODate(FirstOfNextMonth(t), tz)

\* dashboard handleRecordPayment: nextPaymentDue after a payment is recorded.
RecordNextPaymentDue(t, tz) == ToISODate(SetMonthPlusOne(t), tz)

\* Days from 2024-01-01 to the first day of year y (y >= 2024).
RECURSIVE DaysBeforeYear(_)
DaysBeforeYear(y) ==
  IF y <= 2024 THEN 0
  ELSE DaysBeforeYear(y - 1) + (IF IsLeap(y - 1) THEN 366 ELSE 365)

\* Days from the first day of year y to the first day of its month m.
RECURSIVE DaysBeforeMonth(_, _)
DaysBeforeMonth(y, m) ==
  IF m <= 1 THEN 0 ELSE DaysBeforeMonth(y, m - 1) + DaysInMonth(y, m - 1)

\* new Date("YYYY-MM-DD").getTime(): midnight UTC of an ISO date, in hours
\* since 2024-01-01T00:00Z.
DateGetTime(dt) == (DaysBeforeYear(dt[1]) + DaysBeforeMonth(dt[1], dt[2]) + dt[3] - 1) * 24

\* new Date().getTime() at local wall-clock time t in zone tz, in hours since
\* 2024-01-01T00:00Z.
NowGetTime(t, tz) == DateGetTime(<<t.y, t.m, t.d>>) + t.h - tz

\* Math.ceil(a / b) for b > 0.
Ceil(a, b) == -((-a) \div b)

(***************************************************************************)
(* Values.                                                                 *)
(***************************************************************************)
DemoEmail == "admin@realestate.com"
DemoPassword == "admin123"
DemoId == <<"demo-admin", 0>>

\* `user_${Date.now()}`
UserIdAt(ms) == <<"user", ms>>

UserIds == {DemoId} \cup {UserIdAt(ms) : ms \in 1..MaxAccounts}

\* user === null in the auth context; no "realestate_user" item in storage.
NoUser == [id |-> <<"none", 0>>, email |-> "", name |-> "", isNewUser |-> FALSE]

\* A "realestate_user" item whose text is not JSON.
Unparseable == [NoUser EXCEPT !.id = <<"unparseable", 0>>]

\* JSON.parse of a "realestate_user" item: <<>> when it throws, else <<value>>.
JSONParse(item) == IF item = Unparseable THEN <<>> ELSE <<item>>

\* localStorage.getItem(key) === null
Absent == [present |-> FALSE, items |-> <<>>]

Stored(items) == [present |-> TRUE, items |-> items]

\* useState initial value of the add form, and what a successful add resets
\* it to.
EmptyAddForm ==
  [name |-> "", rent |-> "", occupant |-> "", occupantEmail |-> "", leaseEndDate |-> NoDate,
   status |-> "vacant", propertyType |-> ""]

\* No request has reached the endpoint yet.
NoRequest == [kind |-> "none"]

\* No dialog of the property list is open.
NoDialog == [kind |-> "none", property |-> <<>>, isSubmitting |-> FALSE, sendStatus |-> "idle"]

\* String.prototype.trim() on the strings the forms are given here.
Trim(s) == IF s = " " THEN "" ELSE s

\* Number.parseFloat on the amounts the forms are given here (-1: NaN).
ParseFloat(s) ==
  CASE s = "150000" -> 150000
    [] s = "90000" -> 90000
    [] OTHER -> -1

\* Number.prototype.toString(), the inverse of ParseFloat.
NumToString(n) ==
  CASE n = 150000 -> "150000"
    [] n = 90000 -> "90000"
    [] OTHER -> "NaN"

\* The wall clocks and zones a run starts from.
Clocks == {[y |-> 2025, m |-> 3, d |-> 15, h |-> 12]}
TzOffsets == {1}
FormClocks == Clocks \cup {[y |-> 2025, m |-> 12, d |-> 31, h |-> 23],
                           [y |-> 2024, m |-> 1, d |-> 31, h |-> 0]}
FormTzOffsets == {-5, 0, 1}

VARIABLES
  clock,                \* local wall-clock time of the browser
  tz,                   \* zone offset of the browser, hours east of UTC
  nowMs,                \* Date.now()
  users,                \* localStorage "realestate_users"
  storedUser,           \* localStorage "realestate_user"
  storedProperties,     \* localStorage "realestate_properties_<id>"
  storedPayments,       \* localStorage "realestate_payments_<id>"
  storedNotifications,  \* localStorage "realestate_notifications_<id>"
  onboardingComplete,   \* localStorage "realestate_onboarding_complete" is set
  page,                 \* current route: "login" (/) or "dashboard"
  user,                 \* AuthProvider state
  authLoading,          \* AuthProvider isLoading
  authError,            \* error shown by the login / signup form
  effectPending,        \* the dashboard effect has yet to run for this mount
  properties,           \* DashboardPage state
  payments,             \* DashboardPage state
  notifications,        \* DashboardPage state
  isLoading,            \* DashboardPage state
  showOnboarding,       \* DashboardPage state
  tour,                 \* OnboardingTour: "none", "timer" (about to open) or "open"
  currentStep,          \* OnboardingTour state: index of the step shown
  addForm,              \* AddPropertyDialog formData, as the last submit left it
  dialog,               \* PropertyList editing / notifying / payment dialog
  sends,                \* notification submissions awaiting fetch or timer
  alert,                \* message of the blocking window.alert, "" if none
  seq,                  \* randomUUID draws so far, per record kind
  otherTab,             \* a second tab of this browser: <<>>, or <<its state>>
  request,              \* body of the last POST to /api/send-notification
  response              \* HTTP status the endpoint answered it with, 0 before any

vars == <<clock, tz, nowMs, users, storedUser, storedProperties, storedPayments,
          storedNotifications, page, user, authLoading, authError, effectPending,
          properties, payments, notifications, isLoading, showOnboarding, tour,
          onboardingComplete, currentStep, addForm,
          dialog, sends, alert, seq, otherTab, request, response>>

storageVars == <<users, storedUser, storedProperties, storedPayments, storedNotifications,
                 onboardingComplete>>
authVars == <<user, authLoading, authError>>
dashVars == <<properties, payments, notifications, isLoading, showOnboarding, tour,
              currentStep, addForm>>
serverVars == <<request, response>>
envVars == <<clock, tz>>

\* A freshly loaded tab at "/" over empty storage.
InitTab ==
  /\ nowMs = 1
  /\ users = <<>>
  /\ storedUser = NoUser
  /\ storedProperties = [u \in UserIds |-> Absent]
  /\ storedPayments = [u \in UserIds |-> Absent]
  /\ storedNotifications = [u \in UserIds |-> Absent]
  /\ page = "login"
  /\ user = NoUser
  /\ authLoading = TRUE
  /\ authError = ""
  /\ effectPending = FALSE
  /\ properties = <<>>
  /\ payments = <<>>
  /\ notifications = <<>>
  /\ isLoading = TRUE
  /\ showOnboarding = FALSE
  /\ tour = "none"
  /\ currentStep = 0
  /\ addForm = EmptyAddForm
  /\ onboardingComplete = FALSE
  /\ dialog = NoDialog
  /\ sends = <<>>
  /\ alert = ""
  /\ seq = [property |-> 0, payment |-> 0, notification |-> 0]
  /\ otherTab = <<>>
  /\ request = NoRequest
  /\ response = 0

Init ==
  /\ clock \in Clocks
  /\ tz \in TzOffsets
  /\ InitTab

\* The same, on more days of the year and in more zones.
InitForms ==
  /\ clock \in FormClocks
  /\ tz \in FormTzOffsets
  /\ InitTab

(***************************************************************************)
(* Sequence helpers.                                                       *)
(***************************************************************************)
\* Array.prototype.filter
Filter(s, keep(_)) == SelectSeq(s, keep)

\* Array.prototype.map
Map(s, f(_)) == [i \in 1..Len(s) |-> f(s[i])]

RemoveAt(s, i) == SubSeq(s, 1, i - 1) \o SubSeq(s, i + 1, Len(s))

(***************************************************************************)
(* Auth context and the login / signup forms.                              *)
(***************************************************************************)
\* A freshly mounted DashboardPage: its useState initial values.
MountDashboard ==
  /\ properties' = <<>>
  /\ payments' = <<>>
  /\ notifications' = <<>>
  /\ isLoading' = TRUE
  /\ showOnboarding' = FALSE
  /\ tour' = "none"
  /\ currentStep' = 0
  /\ addForm' = EmptyAddForm
  /\ dialog' = NoDialog
  /\ effectPending' = TRUE

\* Submissions whose fetch is still running when their components unmount: the
\* continuation still runs, its set-state calls reach nothing.
Orphaned(ss) ==
  LET inFetch(e) == e.phase = "fetch"
      orphan(e) == [e EXCEPT !.live = FALSE, !.dialogAlive = FALSE]
  IN Map(Filter(ss, inFetch), orphan)

\* DashboardPage unmounts (navigation to "/").
UnmountDashboard ==
  /\ properties' = <<>>
  /\ payments' = <<>>
  /\ notifications' = <<>>
  /\ isLoading' = TRUE
  /\ showOnboarding' = FALSE
  /\ tour' = "none"
  /\ currentStep' = 0
  /\ addForm' = EmptyAddForm
  /\ dialog' = NoDialog
  /\ effectPending' = FALSE
  /\ sends' = Orphaned(sends)

\* A mount effect whose catch block leaves the item in storage.
AuthMountKeepingItem ==
  /\ authLoading
  /\ alert = ""
  /\ IF storedUser = NoUser \/ JSONParse(storedUser) = <<>>
     THEN UNCHANGED user
     ELSE user' = JSONParse(storedUser)[1]
  /\ authLoading' = FALSE
  /\ UNCHANGED <<envVars, serverVars, otherTab, onboardingComplete, nowMs, storageVars, page, authError, effectPending,
                 dashVars, dialog, sends, alert, seq>>

\* AuthProvider mount effect: restore the stored session.
AuthMount ==
  /\ authLoading
  /\ alert = ""
  /\ IF storedUser = NoUser
     THEN UNCHANGED <<user, storedUser>>
     ELSE LET parsedUser == JSONParse(storedUser)
          IN IF parsedUser = <<>>
             THEN /\ storedUser' = NoUser
                  /\ UNCHANGED user
             ELSE /\ user' = parsedUser[1]
                  /\ UNCHANGED storedUser
  /\ authLoading' = FALSE
  /\ UNCHANGED <<envVars, serverVars, otherTab, onboardingComplete, nowMs, users, storedProperties, storedPayments,
                 storedNotifications, page, authError, effectPending,
                 dashVars, dialog, sends, alert, seq>>

\* The "realestate_user" item is overwritten outside the app (the browser's
\* storage inspector, another script of the origin) with text that is not JSON.
CorruptStoredUser ==
  /\ storedUser /= Unparseable
  /\ storedUser' = Unparseable
  /\ UNCHANGED <<envVars, serverVars, otherTab, onboardingComplete, nowMs, users, storedProperties, storedPayments,
                 storedNotifications, page, authVars, effectPending,
                 dashVars, dialog, sends, alert, seq>>

\* users.find(u => u.email === email && u.password === password)
FindAccount(us, email, password) ==
  LET hits == {i \in 1..Len(us) : us[i].email = email /\ us[i].password = password}
  IN IF hits = {} THEN 0 ELSE CHOOSE i \in hits : \A j \in hits : i <= j

\* A lookup that never finds the email.
FindEmailNever(us, email) == 0

\* users.find(u => u.email === email)
FindEmail(us, email) ==
  LET hits == {i \in 1..Len(us) : us[i].email = email}
  IN IF hits = {} THEN 0 ELSE CHOOSE i \in hits : \A j \in hits : i <= j

\* A session record that always carries the "new" flag.
SessionOfAlwaysNew(account, isNew) ==
  [id |-> account.id, email |-> account.email, name |-> account.name, isNewUser |-> TRUE]

\* The session record login / signup put in state and storage.
SessionOf(account, isNew) ==
  [id |-> account.id, email |-> account.email, name |-> account.name, isNewUser |-> isNew]

DemoUser == [id |-> DemoId, email |-> DemoEmail, name |-> "Admin", isNewUser |-> FALSE]

\* A login that looks the account up by its email alone.
loginByEmail(email, password) ==
  LET i == FindEmail(users, email)
  IN IF i /= 0 THEN SessionOf(users[i], FALSE)
     ELSE IF email = DemoEmail /\ password = DemoPassword THEN DemoUser
     ELSE NoUser

\* login(email, password): the session it establishes, NoUser on failure.
login(email, password) ==
  LET i == FindAccount(users, email, password)
  IN IF i /= 0 THEN SessionOf(users[i], FALSE)
     ELSE IF email = DemoEmail /\ password = DemoPassword THEN DemoUser
     ELSE NoUser

\* LoginForm.handleSubmit
LoginSubmit(email, password) ==
  /\ page = "login"
  /\ ~authLoading
  /\ alert = ""
  /\ IF email = "" \/ password = ""
     THEN /\ authError' = "Please enter both email and password"
          /\ UNCHANGED <<user, storedUser, page, dashVars, dialog, effectPending>>
     ELSE LET session == login(email, password)
          IN IF session /= NoUser
             THEN /\ user' = session
                  /\ storedUser' = session
                  /\ authError' = ""
                  /\ page' = "dashboard"
                  /\ MountDashboard
             ELSE /\ authError' = "Invalid email or password"
                  /\ UNCHANGED <<user, storedUser, page, dashVars, dialog, effectPending>>
  /\ UNCHANGED <<envVars, serverVars, otherTab, onboardingComplete, nowMs, users, storedProperties, storedPayments,
                 storedNotifications, authLoading, sends, alert, seq>>

\* A failed signup that also drops the session it found.
DuplicateSignupSignsOut ==
  /\ authError' = "Email already registered"
  /\ user' = NoUser
  /\ storedUser' = NoUser
  /\ UNCHANGED <<nowMs, users, page, dashVars, dialog, effectPending>>

\* signup() found the email among the registered users: the form shows the
\* error, nothing else happens.
DuplicateSignup ==
  /\ authError' = "Email already registered"
  /\ UNCHANGED <<nowMs, users, user, storedUser, page, dashVars, dialog, effectPending>>

\* signup(email, password, name)
signup(email, password, name) ==
  IF FindEmail(users, email) /= 0
  THEN DuplicateSignup
  ELSE /\ Len(users) < MaxAccounts
       /\ LET newUser == [id |-> UserIdAt(nowMs), email |-> email,
                          password |-> password, name |-> name]
          IN /\ users' = Append(users, newUser)
             /\ user' = SessionOf(newUser, TRUE)
             /\ storedUser' = SessionOf(newUser, TRUE)
       /\ nowMs' = nowMs + 1
       /\ authError' = ""
       /\ page' = "dashboard"
       /\ MountDashboard

\* A form that does not compare the password with its confirmation.
SignupSubmitUnconfirmed(name, email, password, confirmPassword) ==
  /\ page = "login"
  /\ ~authLoading
  /\ alert = ""
  /\ IF name = "" \/ email = "" \/ password = "" \/ confirmPassword = ""
     THEN /\ authError' = "Please fill in all fields"
          /\ UNCHANGED <<nowMs, users, user, storedUser, page, dashVars, dialog, effectPending>>
     ELSE IF Len(password) < 6
     THEN /\ authError' = "Password must be at least 6 characters"
          /\ UNCHANGED <<nowMs, users, user, storedUser, page, dashVars, dialog, effectPending>>
     ELSE signup(email, password, name)
  /\ UNCHANGED <<envVars, serverVars, otherTab, onboardingComplete, storedProperties, storedPayments, storedNotifications,
                 authLoading, sends, alert, seq>>

\* SignupForm.handleSubmit
SignupSubmit(name, email, password, confirmPassword) ==
  /\ page = "login"
  /\ ~authLoading
  /\ alert = ""
  /\ IF name = "" \/ email = "" \/ password = "" \/ confirmPassword = ""
     THEN /\ authError' = "Please fill in all fields"
          /\ UNCHANGED <<nowMs, users, user, storedUser, page, dashVars, dialog, effectPending>>
     ELSE IF Len(password) < 6
     THEN /\ authError' = "Password must be at least 6 characters"
          /\ UNCHANGED <<nowMs, users, user, storedUser, page, dashVars, dialog, effectPending>>
     ELSE IF password /= confirmPassword
     THEN /\ authError' = "Passwords do not match"
          /\ UNCHANGED <<nowMs, users, user, storedUser, page, dashVars, dialog, effectPending>>
     ELSE signup(email, password, name)
  /\ UNCHANGED <<envVars, serverVars, otherTab, onboardingComplete, storedProperties, storedPayments, storedNotifications,
                 authLoading, sends, alert, seq>>

\* DashboardLayout.handleLogout
\* The dashboard is rendered and can be clicked: no spinner, no alert box, no
\* tour overlay on top of it.
Rendered ==
  page = "dashboard" /\ ~authLoading /\ ~isLoading /\ alert = "" /\ tour /= "open"

handleLogout ==
  /\ Rendered
  /\ dialog.kind = "none"
  /\ storedUser' = NoUser
  /\ page' = "login"
  /\ UnmountDashboard
  /\ UNCHANGED <<envVars, serverVars, otherTab, onboardingComplete, nowMs, users, storedProperties, storedPayments,
                 storedNotifications, authVars, alert, seq>>

\* The user reloads the tab: every piece of JavaScript state starts over.
Reload ==
  /\ user' = NoUser
  /\ authLoading' = TRUE
  /\ authError' = ""
  /\ properties' = <<>>
  /\ payments' = <<>>
  /\ notifications' = <<>>
  /\ isLoading' = TRUE
  /\ showOnboarding' = FALSE
  /\ tour' = "none"
  /\ currentStep' = 0
  /\ addForm' = EmptyAddForm
  /\ dialog' = NoDialog
  /\ sends' = <<>>
  /\ alert' = ""
  /\ effectPending' = (page = "dashboard")
  /\ UNCHANGED <<envVars, serverVars, otherTab, onboardingComplete, nowMs, storageVars, page, seq>>

\* The user opens /dashboard from the address bar: a full page load of the
\* dashboard route.
VisitDashboard ==
  /\ page = "login"
  /\ page' = "dashboard"
  /\ user' = NoUser
  /\ authLoading' = TRUE
  /\ authError' = ""
  /\ properties' = <<>>
  /\ payments' = <<>>
  /\ notifications' = <<>>
  /\ isLoading' = TRUE
  /\ showOnboarding' = FALSE
  /\ tour' = "none"
  /\ currentStep' = 0
  /\ addForm' = EmptyAddForm
  /\ dialog' = NoDialog
  /\ sends' = <<>>
  /\ alert' = ""
  /\ effectPending' = TRUE
  /\ UNCHANGED <<envVars, serverVars, otherTab, onboardingComplete, nowMs, storageVars, seq>>

\* The JavaScript state of the tab in front.
TabState ==
  [page |-> page, user |-> user, authLoading |-> authLoading, authError |-> authError,
   effectPending |-> effectPending, properties |-> properties, payments |-> payments,
   notifications |-> notifications, isLoading |-> isLoading,
   showOnboarding |-> showOnboarding, tour |-> tour, currentStep |-> currentStep,
   addForm |-> addForm,
   dialog |-> dialog, sends |-> sends,
   alert |-> alert]

\* The tab t comes to the front.
ShowTab(t) ==
  /\ page' = t.page
  /\ user' = t.user
  /\ authLoading' = t.authLoading
  /\ authError' = t.authError
  /\ effectPending' = t.effectPending
  /\ properties' = t.properties
  /\ payments' = t.payments
  /\ notifications' = t.notifications
  /\ isLoading' = t.isLoading
  /\ showOnboarding' = t.showOnboarding
  /\ tour' = t.tour
  /\ currentStep' = t.currentStep
  /\ addForm' = t.addForm
  /\ dialog' = t.dialog
  /\ sends' = t.sends
  /\ alert' = t.alert

\* A freshly loaded tab at /dashboard.
NewDashboardTab ==
  [page |-> "dashboard", user |-> NoUser, authLoading |-> TRUE, authError |-> "",
   effectPending |-> TRUE, properties |-> <<>>, payments |-> <<>>, notifications |-> <<>>,
   isLoading |-> TRUE, showOnboarding |-> FALSE, tour |-> "none", currentStep |-> 0,
   addForm |-> EmptyAddForm,
   dialog |-> NoDialog,
   sends |-> <<>>,
   alert |-> ""]

\* The user opens the dashboard in a second tab of the same browser; the
\* first tab stays as it is behind it.
OpenSecondTab ==
  /\ otherTab = <<>>
  /\ Rendered
  /\ otherTab' = <<TabState>>
  /\ ShowTab(NewDashboardTab)
  /\ UNCHANGED <<envVars, serverVars, nowMs, storageVars, seq>>

\* The user brings the other tab to the front.
SwitchTab ==
  /\ otherTab /= <<>>
  /\ otherTab' = <<TabState>>
  /\ ShowTab(otherTab[1])
  /\ UNCHANGED <<envVars, serverVars, nowMs, storageVars, seq>>

(***************************************************************************)
(* DashboardPage: mount effect and loadUserData.                           *)
(***************************************************************************)
\* One key for every account.
SharedStorageKey(u) == DemoId

\* The key suffix of the three per-user items.
StorageKey(u) == u.id

\* loadUserData: a collection is replaced only when its item exists.
Loaded(item, current) == IF item.present THEN item.items ELSE current

\* OnboardingTour mount effect: unless the browser has the completion flag,
\* a 1000 ms timer is set that opens the tour.
TourOnMount == IF onboardingComplete THEN "none" ELSE "timer"

\* An effect that lets a visitor without a session through to an empty
\* dashboard.
DashboardEffectOpen ==
  /\ page = "dashboard"
  /\ ~authLoading
  /\ effectPending
  /\ alert = ""
  /\ effectPending' = FALSE
  /\ IF user = NoUser
     THEN /\ isLoading' = FALSE
          /\ UNCHANGED <<page, storedUser, properties, payments, notifications,
                         showOnboarding, tour, currentStep, addForm>>
     ELSE /\ IF user.isNewUser
             THEN /\ showOnboarding' = TRUE
                  /\ tour' = TourOnMount
                  /\ currentStep' = 0
                  /\ storedUser' = [user EXCEPT !.isNewUser = FALSE]
             ELSE UNCHANGED <<showOnboarding, tour, currentStep, storedUser>>
          /\ properties' = Loaded(storedProperties[StorageKey(user)], properties)
          /\ notifications' = Loaded(storedNotifications[StorageKey(user)], notifications)
          /\ payments' = Loaded(storedPayments[StorageKey(user)], payments)
          /\ isLoading' = FALSE
          /\ page' = page
  /\ UNCHANGED <<envVars, serverVars, otherTab, onboardingComplete, nowMs, users, storedProperties, storedPayments,
                 storedNotifications, authVars, addForm, dialog, sends, alert, seq>>

\* DashboardPage useEffect, once auth loading has finished.
DashboardEffect ==
  /\ page = "dashboard"
  /\ ~authLoading
  /\ effectPending
  /\ alert = ""
  /\ effectPending' = FALSE
  /\ IF user = NoUser
     THEN /\ page' = "login"
          /\ UNCHANGED <<storedUser, dashVars>>
     ELSE /\ IF user.isNewUser
             THEN /\ showOnboarding' = TRUE
                  /\ tour' = TourOnMount
                  /\ currentStep' = 0
                  /\ storedUser' = [user EXCEPT !.isNewUser = FALSE]
             ELSE UNCHANGED <<showOnboarding, tour, currentStep, storedUser>>
          /\ properties' = Loaded(storedProperties[StorageKey(user)], properties)
          /\ notifications' = Loaded(storedNotifications[StorageKey(user)], notifications)
          /\ payments' = Loaded(storedPayments[StorageKey(user)], payments)
          /\ isLoading' = FALSE
          /\ page' = page
  /\ UNCHANGED <<envVars, serverVars, otherTab, onboardingComplete, nowMs, users, storedProperties, storedPayments,
                 storedNotifications, authVars, addForm, dialog, sends, alert, seq>>

\* The 1000 ms timer of the tour: setIsOpen(true).
TourTimer ==
  /\ page = "dashboard"
  /\ alert = ""
  /\ tour = "timer"
  /\ tour' = "open"
  /\ UNCHANGED <<envVars, serverVars, otherTab, nowMs, storageVars, page, authVars, effectPending,
                 properties, payments, notifications, isLoading, showOnboarding, currentStep, addForm,
                 dialog, sends, alert, seq>>

\* The ids of onboardingSteps; currentStep indexes them from 0.
onboardingSteps ==
  <<"welcome", "add-property", "property-stats", "tabs", "theme", "complete">>

isLastStep == currentStep = Len(onboardingSteps) - 1

\* A Next that advances from every step.
handleNextUnguarded ==
  /\ page = "dashboard"
  /\ alert = ""
  /\ tour = "open"
  /\ currentStep' = currentStep + 1
  /\ UNCHANGED <<envVars, serverVars, otherTab, nowMs, storageVars, page, authVars, effectPending,
                 properties, payments, notifications, isLoading, showOnboarding, tour, addForm,
                 dialog, sends, alert, seq>>

\* OnboardingTour.handleNext.
handleNext ==
  /\ page = "dashboard"
  /\ alert = ""
  /\ tour = "open"
  /\ currentStep' = IF currentStep < Len(onboardingSteps) - 1
                    THEN currentStep + 1 ELSE currentStep
  /\ UNCHANGED <<envVars, serverVars, otherTab, nowMs, storageVars, page, authVars, effectPending,
                 properties, payments, notifications, isLoading, showOnboarding, tour, addForm,
                 dialog, sends, alert, seq>>

\* OnboardingTour.handlePrevious.
handlePrevious ==
  /\ page = "dashboard"
  /\ alert = ""
  /\ tour = "open"
  /\ currentStep' = IF currentStep > 0 THEN currentStep - 1 ELSE currentStep
  /\ UNCHANGED <<envVars, serverVars, otherTab, nowMs, storageVars, page, authVars, effectPending,
                 properties, payments, notifications, isLoading, showOnboarding, tour, addForm,
                 dialog, sends, alert, seq>>

\* OnboardingTour.handleComplete ("Get Started", the button of the last step).
handleComplete ==
  /\ page = "dashboard"
  /\ alert = ""
  /\ tour = "open"
  /\ isLastStep
  /\ onboardingComplete' = TRUE
  /\ tour' = "none"
  /\ UNCHANGED <<envVars, serverVars, otherTab, nowMs, users, storedUser, storedProperties,
                 storedPayments, storedNotifications, page, authVars, effectPending,
                 properties, payments, notifications, isLoading, showOnboarding, currentStep, addForm,
                 dialog, sends, alert, seq>>

\* OnboardingTour.handleSkip (the close button of the card, at any step).
handleSkip ==
  /\ page = "dashboard"
  /\ alert = ""
  /\ tour = "open"
  /\ onboardingComplete' = TRUE
  /\ tour' = "none"
  /\ UNCHANGED <<envVars, serverVars, otherTab, nowMs, users, storedUser, storedProperties,
                 storedPayments, storedNotifications, page, authVars, effectPending,
                 properties, payments, notifications, isLoading, showOnboarding, currentStep, addForm,
                 dialog, sends, alert, seq>>

(***************************************************************************)
(* DashboardPage handlers.  Each is the handler of the render it was       *)
(* created in: u, props, pays and notifs are the user and collections      *)
(* that render closed over.                                                *)
(***************************************************************************)
\* An add that appends to the list it reads back from storage.
handleAddPropertyOnStorage(property) ==
  IF user = NoUser THEN UNCHANGED <<properties, storedProperties>>
  ELSE LET propertyWithUser == [property EXCEPT !.userId = user.id]
           newProperties == Append(storedProperties[StorageKey(user)].items, propertyWithUser)
       IN /\ properties' = newProperties
          /\ storedProperties' =
               [storedProperties EXCEPT ![StorageKey(user)] = Stored(newProperties)]

handleAddProperty(property) ==
  IF user = NoUser THEN UNCHANGED <<properties, storedProperties>>
  ELSE LET propertyWithUser == [property EXCEPT !.userId = user.id]
           newProperties == Append(properties, propertyWithUser)
       IN /\ properties' = newProperties
          /\ storedProperties' =
               [storedProperties EXCEPT ![StorageKey(user)] = Stored(newProperties)]

handleDeleteProperty(id) ==
  IF user = NoUser THEN UNCHANGED <<properties, storedProperties>>
  ELSE LET newProperties == Filter(properties, LAMBDA p : p.id /= id)
       IN /\ properties' = newProperties
          /\ storedProperties' =
               [storedProperties EXCEPT ![StorageKey(user)] = Stored(newProperties)]

handleEditProperty(updatedProperty) ==
  IF user = NoUser THEN UNCHANGED <<properties, storedProperties>>
  ELSE LET newProperties ==
             Map(properties, LAMBDA p : IF p.id = updatedProperty.id THEN updatedProperty ELSE p)
       IN /\ properties' = newProperties
          /\ storedProperties' =
               [storedProperties EXCEPT ![StorageKey(user)] = Stored(newProperties)]

\* A recorder that reconciles the amount against the rent.
PaidPropertyReconciled(p, payment) ==
  [p EXCEPT !.paymentStatus = IF payment.amount >= p.rent THEN "paid" ELSE @,
            !.lastPaymentDate = payment.paymentDate,
            !.nextPaymentDue = RecordNextPaymentDue(clock, tz)]

\* The property a recorded payment leaves behind (the body of the map).
PaidProperty(p, payment) ==
  [p EXCEPT !.paymentStatus = "paid",
            !.lastPaymentDate = payment.paymentDate,
            !.nextPaymentDue = RecordNextPaymentDue(clock, tz)]

handleRecordPayment(payment) ==
  IF user = NoUser THEN UNCHANGED <<properties, payments, storedPayments>>
  ELSE LET paymentWithUser == [payment EXCEPT !.userId = user.id]
           newPayments == Append(payments, paymentWithUser)
           storageKeyPayments == StorageKey(user)
           updatedProperties ==
             Map(properties, LAMBDA p : IF p.id = payment.propertyId
                                        THEN PaidProperty(p, payment) ELSE p)
       IN /\ payments' = newPayments
          /\ properties' = updatedProperties
          \* setItem(storageKeyPayments, newPayments), then
          \* setItem(storageKeyPayments, updatedProperties)
          /\ storedPayments' =
               [storedPayments EXCEPT ![storageKeyPayments] = Stored(updatedProperties)]

\* A handler that stamps the user of the session in which it completes.
handleSendNotificationByCurrentUser(notification, u, notifs, mounted) ==
  IF u = NoUser THEN UNCHANGED <<notifications, storedNotifications>>
  ELSE LET notificationWithUser == [notification EXCEPT !.userId = user.id]
           newNotifications == Append(notifs, notificationWithUser)
       IN /\ notifications' = IF mounted THEN newNotifications ELSE notifications
          /\ storedNotifications' =
               [storedNotifications EXCEPT ![StorageKey(u)] = Stored(newNotifications)]

\* handleSendNotification as closed over by the render with user u and
\* notification list notifs; mounted tells whether setNotifications still
\* reaches a mounted DashboardPage.
handleSendNotification(notification, u, notifs, mounted) ==
  IF u = NoUser THEN UNCHANGED <<notifications, storedNotifications>>
  ELSE LET notificationWithUser == [notification EXCEPT !.userId = u.id]
           newNotifications == Append(notifs, notificationWithUser)
       IN /\ notifications' = IF mounted THEN newNotifications ELSE notifications
          /\ storedNotifications' =
               [storedNotifications EXCEPT ![StorageKey(u)] = Stored(newNotifications)]

(***************************************************************************)
(* AddPropertyDialog.                                                      *)
(***************************************************************************)
\* A default that follows the chosen status instead of the occupant.
AddPaymentStatusByStatus(formData) == IF formData.status = "occupied" THEN "pending" ELSE "paid"

\* paymentStatus of a new property.
AddPaymentStatus(formData) == IF formData.occupant /= "" THEN "pending" ELSE "paid"

NewProperty(formData, id) ==
  [id |-> id,
   userId |-> NoUser.id,
   name |-> formData.name,
   rent |-> ParseFloat(formData.rent),
   occupant |-> formData.occupant,
   occupantEmail |-> formData.occupantEmail,
   leaseEndDate |-> formData.leaseEndDate,
   status |-> formData.status,
   propertyType |-> formData.propertyType,
   createdAt |-> ToISODate(clock, tz),
   lastPaymentDate |-> NoDate,
   paymentStatus |-> AddPaymentStatus(formData),
   nextPaymentDue |-> IF formData.occupant /= "" THEN AddNextPaymentDue(clock, tz) ELSE NoDate]

\* A submit that never asks for the property type.
AddSubmitUntyped(formData) ==
  /\ Rendered
  /\ dialog.kind = "none"
  /\ IF formData.name = "" \/ formData.rent = ""
     THEN /\ alert' = "Property name and rent are required"
          /\ addForm' = formData
          /\ UNCHANGED <<properties, storedProperties, seq>>
     ELSE /\ seq.property < MaxProps
          /\ seq' = [seq EXCEPT !.property = @ + 1]
          /\ handleAddProperty(NewProperty(formData, seq.property + 1))
          /\ addForm' = EmptyAddForm
          /\ UNCHANGED alert
  /\ UNCHANGED <<envVars, serverVars, otherTab, onboardingComplete, nowMs, users, storedUser, storedPayments, storedNotifications,
                 page, authVars, effectPending, payments, notifications, isLoading,
                 showOnboarding, tour, currentStep, dialog, sends>>

\* AddPropertyDialog.handleSubmit, the form filled in with formData: a
\* refused form stays as it is, an added one is reset.
AddSubmit(formData) ==
  /\ Rendered
  /\ dialog.kind = "none"
  /\ IF formData.name = "" \/ formData.rent = ""
     THEN /\ alert' = "Property name and rent are required"
          /\ addForm' = formData
          /\ UNCHANGED <<properties, storedProperties, seq>>
     ELSE IF formData.propertyType = ""
     THEN /\ alert' = "Please select a property type"
          /\ addForm' = formData
          /\ UNCHANGED <<properties, storedProperties, seq>>
     ELSE /\ seq.property < MaxProps
          /\ seq' = [seq EXCEPT !.property = @ + 1]
          /\ handleAddProperty(NewProperty(formData, seq.property + 1))
          /\ addForm' = EmptyAddForm
          /\ UNCHANGED alert
  /\ UNCHANGED <<envVars, serverVars, otherTab, onboardingComplete, nowMs, users, storedUser, storedPayments, storedNotifications,
                 page, authVars, effectPending, payments, notifications, isLoading,
                 showOnboarding, tour, currentStep, dialog, sends>>

\* The user dismisses the alert box.
DismissAlert ==
  /\ alert /= ""
  /\ alert' = ""
  /\ UNCHANGED <<envVars, serverVars, otherTab, onboardingComplete, nowMs, storageVars, page, authVars, effectPending, dashVars,
                 dialog, sends, seq>>

(***************************************************************************)
(* PropertyList: delete, and opening / closing the dialogs.                *)
(***************************************************************************)
\* Delete button, confirm() answered with OK.
DeleteClick(id) ==
  /\ Rendered
  /\ dialog.kind = "none"
  /\ \E i \in 1..Len(properties) : properties[i].id = id
  /\ handleDeleteProperty(id)
  /\ UNCHANGED <<envVars, serverVars, otherTab, onboardingComplete, nowMs, users, storedUser, storedPayments, storedNotifications,
                 page, authVars, effectPending, payments, notifications, isLoading,
                 showOnboarding, tour, currentStep, addForm, dialog, sends, alert, seq>>

\* Edit / Send Notification / Record Payment button of one property card; the
\* last two are rendered only for a property with an occupant.
OpenDialog(kind, property) ==
  /\ Rendered
  /\ dialog.kind = "none"
  /\ kind \in {"notify", "payment"} => property.occupant /= ""
  /\ dialog' = [kind |-> kind, property |-> <<property>>,
                isSubmitting |-> FALSE, sendStatus |-> "idle"]
  /\ UNCHANGED <<envVars, serverVars, otherTab, onboardingComplete, nowMs, storageVars, page, authVars, effectPending, dashVars,
                 sends, alert, seq>>

\* The dialog's components unmount: pending submissions lose their dialog.
DialogGone(ss) == Map(ss, LAMBDA e : [e EXCEPT !.dialogAlive = FALSE])

\* Cancel button, Escape or overlay click of the open dialog.
CloseDialog ==
  /\ Rendered
  /\ dialog.kind /= "none"
  /\ dialog' = NoDialog
  /\ sends' = DialogGone(sends)
  /\ UNCHANGED <<envVars, serverVars, otherTab, onboardingComplete, nowMs, storageVars, page, authVars, effectPending, dashVars, alert, seq>>

(***************************************************************************)
(* EditPropertyDialog.                                                     *)
(***************************************************************************)
\* useState initial value of the edit form.
EditFormOf(property) ==
  [name |-> property.name,
   rent |-> NumToString(property.rent),
   occupant |-> property.occupant,
   occupantEmail |-> property.occupantEmail,
   leaseEndDate |-> property.leaseEndDate,
   status |-> property.status,
   propertyType |-> property.propertyType,
   paymentStatus |-> property.paymentStatus]

\* An edit that re-derives the payment status the way add does.
EditedPropertyRederived(property, formData) ==
  [property EXCEPT !.name = formData.name,
                   !.rent = ParseFloat(formData.rent),
                   !.occupant = formData.occupant,
                   !.occupantEmail = formData.occupantEmail,
                   !.leaseEndDate = formData.leaseEndDate,
                   !.status = formData.status,
                   !.propertyType = formData.propertyType,
                   !.paymentStatus = IF formData.occupant /= "" THEN "pending" ELSE "paid"]

\* updatedProperty: the spread of the dialog's property under the form fields.
EditedProperty(property, formData) ==
  [property EXCEPT !.name = formData.name,
                   !.rent = ParseFloat(formData.rent),
                   !.occupant = formData.occupant,
                   !.occupantEmail = formData.occupantEmail,
                   !.leaseEndDate = formData.leaseEndDate,
                   !.status = formData.status,
                   !.propertyType = formData.propertyType,
                   !.paymentStatus = formData.paymentStatus]

\* EditPropertyDialog.handleSubmit
EditSubmit(formData) ==
  /\ Rendered
  /\ dialog.kind = "edit"
  /\ IF formData.name = "" \/ formData.rent = ""
     THEN /\ alert' = "Property name and rent are required"
          /\ UNCHANGED <<properties, storedProperties, dialog, sends>>
     ELSE /\ handleEditProperty(EditedProperty(dialog.property[1], formData))
          /\ dialog' = NoDialog
          /\ sends' = DialogGone(sends)
          /\ UNCHANGED alert
  /\ UNCHANGED <<envVars, serverVars, otherTab, onboardingComplete, nowMs, users, storedUser, storedPayments, storedNotifications,
                 page, authVars, effectPending, payments, notifications, isLoading,
                 showOnboarding, tour, currentStep, addForm, seq>>

(***************************************************************************)
(* RecordPaymentDialog.                                                    *)
(***************************************************************************)
\* useState initial value of the payment form.
PaymentFormOf(property) ==
  [amount |-> NumToString(property.rent), paymentDate |-> ToISODate(clock, tz)]

NewPayment(property, formData, id) ==
  [id |-> id,
   userId |-> NoUser.id,
   propertyId |-> property.id,
   propertyName |-> property.name,
   occupantName |-> IF property.occupant /= "" THEN property.occupant ELSE "Unknown",
   amount |-> ParseFloat(formData.amount),
   paymentDate |-> formData.paymentDate,
   paymentMethod |-> "bank_transfer",
   status |-> "completed",
   createdAt |-> ToISODate(clock, tz)]

\* RecordPaymentDialog.handleSubmit
PaymentSubmit(formData) ==
  /\ Rendered
  /\ dialog.kind = "payment"
  /\ IF formData.amount = "" \/ formData.paymentDate = NoDate
     THEN /\ alert' = "Amount and payment date are required"
          /\ UNCHANGED <<properties, payments, storedPayments, dialog, sends, seq>>
     ELSE /\ seq.payment < MaxPays
          /\ seq' = [seq EXCEPT !.payment = @ + 1]
          /\ handleRecordPayment(NewPayment(dialog.property[1], formData, seq.payment + 1))
          /\ dialog' = NoDialog
          /\ sends' = DialogGone(sends)
          /\ UNCHANGED alert
  /\ UNCHANGED <<envVars, serverVars, otherTab, onboardingComplete, nowMs, users, storedUser, storedProperties, storedNotifications,
                 page, authVars, effectPending, notifications, isLoading,
                 showOnboarding, tour, currentStep, addForm>>

(***************************************************************************)
(* The notification dispatch endpoint, POST /api/send-notification.  A     *)
(* request body is [kind |-> "invalid"] (not JSON), [kind |-> "null"] (the *)
(* JSON literal null) or [kind |-> "object", fields |-> f] with f a        *)
(* function from the names of the fields it has to their strings.          *)
(***************************************************************************)
\* !body.name after the destructuring: the field is absent or "".
Falsy(body, name) == name \notin DOMAIN body.fields \/ body.fields[name] = ""

\* An endpoint that does not look at the message.
POSTIgnoringMessage(body) ==
  IF body.kind /= "object" THEN 500
  ELSE IF Falsy(body, "to") \/ Falsy(body, "subject") THEN 400
  ELSE 200

\* POST: the HTTP status of the response.  request.json() throws on a body
\* that is not JSON and the destructuring throws on null; both end in the
\* catch block.
POST(body) ==
  IF body.kind /= "object" THEN 500
  ELSE IF Falsy(body, "to") \/ Falsy(body, "subject") \/ Falsy(body, "message") THEN 400
  ELSE 200

\* Some client posts body to the endpoint and receives the answer.
PostRequest(body) ==
  /\ request' = body
  /\ response' = POST(body)
  /\ UNCHANGED <<envVars, otherTab, nowMs, storageVars, page, authVars, effectPending,
                 dashVars, dialog, sends, alert, seq>>

(***************************************************************************)
(* SendNotificationDialog.                                                 *)
(***************************************************************************)
\* Validation that forgets to trim.
NotifyRejectionUntrimmed(property, formData) ==
  IF property.occupant = "" THEN "This property has no occupant to send notification to."
  ELSE IF formData.subject = "" \/ formData.message = ""
  THEN "Please fill in all required fields."
  ELSE ""

\* The two validation returns of handleSubmit.
NotifyRejection(property, formData) ==
  IF property.occupant = "" THEN "This property has no occupant to send notification to."
  ELSE IF Trim(formData.subject) = "" \/ Trim(formData.message) = ""
  THEN "Please fill in all required fields."
  ELSE ""

\* A test that does not trim the recipient email.
WantsEmailUntrimmed(formData) == formData.recipientEmail /= ""

\* if (recipientEmail && recipientEmail.trim())
WantsEmail(formData) == formData.recipientEmail /= "" /\ Trim(formData.recipientEmail) /= ""

NewNotification(property, formData, id) ==
  [id |-> id,
   userId |-> NoUser.id,
   propertyId |-> property.id,
   propertyName |-> property.name,
   recipientName |-> property.occupant,
   recipientEmail |-> formData.recipientEmail,
   subject |-> formData.subject,
   message |-> formData.message,
   type |-> formData.type,
   status |-> "sent",
   sentAt |-> ToISODate(clock, tz)]

\* JSON.stringify(data) of sendEmailNotification: the body of the POST.
EmailRequest(property, formData) ==
  [kind |-> "object",
   fields |-> [to |-> formData.recipientEmail,
               subject |-> formData.subject,
               message |-> formData.message,
               propertyName |-> property.name,
               occupantName |-> property.occupant]]

\* A submission suspended at `await sendEmailNotification(...)` ("fetch") or
\* waiting for its 1500 ms close timer ("timer"), with the onSend closure of
\* the render it was started in.
PendingSend(property, formData, id, phase) ==
  [notification |-> NewNotification(property, formData, id),
   request |-> IF phase = "fetch" THEN EmailRequest(property, formData) ELSE NoRequest,
   onSendUser |-> user,
   onSendNotifications |-> notifications,
   live |-> TRUE,
   dialogAlive |-> TRUE,
   phase |-> phase]

\* SendNotificationDialog.handleSubmit up to its first suspension, for at most
\* maxSends valid submissions.
NotifySubmitUpTo(formData, maxSends) ==
  /\ Rendered
  /\ dialog.kind = "notify"
  /\ ~dialog.isSubmitting
  /\ LET property == dialog.property[1]
         rejection == NotifyRejection(property, formData)
     IN IF rejection /= ""
        THEN /\ alert' = rejection
             /\ UNCHANGED <<notifications, storedNotifications, dialog, sends, seq>>
        ELSE /\ seq.notification < maxSends
             /\ seq' = [seq EXCEPT !.notification = @ + 1]
             /\ UNCHANGED alert
             /\ IF WantsEmail(formData)
                THEN /\ sends' = Append(sends, PendingSend(property, formData,
                                                          seq.notification + 1, "fetch"))
                     /\ dialog' = [dialog EXCEPT !.isSubmitting = TRUE, !.sendStatus = "idle"]
                     /\ UNCHANGED <<notifications, storedNotifications>>
                ELSE /\ handleSendNotification(
                          NewNotification(property, formData, seq.notification + 1),
                          user, notifications, TRUE)
                     /\ sends' = Append(sends, PendingSend(property, formData,
                                                          seq.notification + 1, "timer"))
                     /\ dialog' = [dialog EXCEPT !.isSubmitting = TRUE, !.sendStatus = "success"]
  /\ UNCHANGED <<envVars, serverVars, otherTab, onboardingComplete, nowMs, users, storedUser, storedProperties, storedPayments,
                 page, authVars, effectPending, properties, payments, isLoading,
                 showOnboarding, tour, currentStep, addForm>>

NotifySubmit(formData) == NotifySubmitUpTo(formData, MaxSends)

\* The POST returned ok: the rest of the try block runs.
EmailOk(i) ==
  /\ alert = ""
  /\ i \in 1..Len(sends)
  /\ sends[i].phase = "fetch"
  /\ POST(sends[i].request) = 200
  /\ LET e == sends[i]
     IN /\ handleSendNotification(e.notification, e.onSendUser, e.onSendNotifications, e.live)
        /\ sends' = IF e.live THEN [sends EXCEPT ![i].phase = "timer"] ELSE RemoveAt(sends, i)
        /\ dialog' = IF e.dialogAlive THEN [dialog EXCEPT !.sendStatus = "success"] ELSE dialog
  /\ UNCHANGED <<envVars, serverVars, otherTab, onboardingComplete, nowMs, users, storedUser, storedProperties, storedPayments,
                 page, authVars, effectPending, properties, payments, isLoading,
                 showOnboarding, tour, currentStep, addForm, alert, seq>>

\* The POST returned a non-ok status or the network failed: the catch block.
EmailFail(i) ==
  /\ alert = ""
  /\ i \in 1..Len(sends)
  /\ sends[i].phase = "fetch"
  /\ sends' = RemoveAt(sends, i)
  /\ dialog' = IF sends[i].dialogAlive
               THEN [dialog EXCEPT !.sendStatus = "error", !.isSubmitting = FALSE]
               ELSE dialog
  /\ UNCHANGED <<envVars, serverVars, otherTab, onboardingComplete, nowMs, storageVars, page, authVars, effectPending, dashVars, alert, seq>>

\* The 1500 ms timer: setIsSubmitting(false); onClose().
CloseTimer(i) ==
  /\ alert = ""
  /\ i \in 1..Len(sends)
  /\ sends[i].phase = "timer"
  /\ sends' = DialogGone(RemoveAt(sends, i))
  /\ dialog' = IF dialog.kind = "notify" THEN NoDialog ELSE dialog
  /\ UNCHANGED <<envVars, serverVars, otherTab, onboardingComplete, nowMs, storageVars, page, authVars, effectPending, dashVars, alert, seq>>

(***************************************************************************)
(* Lease expiry (lib/utils) and the views that show it.                    *)
(***************************************************************************)
\* getDaysUntilExpiry: <<>> is null, <<n>> the number n.
getDaysUntilExpiry(leaseEndDate) ==
  IF leaseEndDate = NoDate THEN <<>>
  ELSE <<Ceil(DateGetTime(leaseEndDate) - NowGetTime(clock, tz), 24)>>

DaysThreshold == 30

\* isLeaseExpiringSoon with its default threshold
isLeaseExpiringSoon(leaseEndDate) ==
  LET daysUntil == getDaysUntilExpiry(leaseEndDate)
  IN IF daysUntil = <<>> THEN FALSE
     ELSE daysUntil[1] > 0 /\ daysUntil[1] <= DaysThreshold

\* PropertyStats: the "Expiring Soon" card.
expiringSoon(props) ==
  Len(Filter(props, LAMBDA p :
        LET days == getDaysUntilExpiry(p.leaseEndDate)
        IN days /= <<>> /\ days[1] > 0 /\ days[1] <= 30))

\* PropertyList: the card of a property shows "Lease expiring soon!".
LeaseWarningShown(property) ==
  property.occupant /= "" /\ isLeaseExpiringSoon(property.leaseEndDate)

(***************************************************************************)
(* PropertyStats: the figures of the dashboard's cards.                    *)
(***************************************************************************)
totalProperties(props) == Len(props)

\* An occupied count that goes by the status field.
occupiedPropertiesByStatus(props) == Len(Filter(props, LAMBDA p : p.status = "occupied"))

\* properties.filter((p) => p.occupant).length
occupiedProperties(props) == Len(Filter(props, LAMBDA p : p.occupant /= ""))

\* properties.reduce((sum, p) => sum + p.rent, 0)
RECURSIVE totalRent(_)
totalRent(props) ==
  IF props = <<>> THEN 0
  ELSE totalRent(SubSeq(props, 1, Len(props) - 1)) + props[Len(props)].rent

vacantProperties(props) == totalProperties(props) - occupiedProperties(props)

overduePayments(props) == Len(Filter(props, LAMBDA p : p.paymentStatus = "overdue"))

(***************************************************************************)
(* What the user types into the forms.                                     *)
(***************************************************************************)
Statuses == {"vacant", "occupied", "maintenance"}
PaymentStatuses == {"paid", "pending", "overdue"}

\* Add form: each required field filled or left empty, with or without an
\* occupant.
AddForms ==
  {[name |-> n, rent |-> r, occupant |-> o, occupantEmail |-> "", leaseEndDate |-> NoDate,
    status |-> IF o = "" THEN "vacant" ELSE "occupied", propertyType |-> t] :
     n \in {"", "Unit 1"}, r \in {"", "150000"}, o \in {"", "Jane"},
     t \in {"", "apartment"}}

\* Add form: every status, occupant and occupant email, the required fields
\* filled.
AllAddForms ==
  [name : {"Unit 1"}, rent : {"150000", "90000"}, occupant : {"", " ", "Jane"},
   occupantEmail : {"", "jane@mail.io"}, leaseEndDate : {NoDate, <<2025, 3, 25>>, <<2025, 4, 15>>},
   status : Statuses, propertyType : {"apartment", "land"}]

\* The one add form the other scenarios use: a valid, occupied property.
TenantForm ==
  [name |-> "Unit 1", rent |-> "150000", occupant |-> "Jane", occupantEmail |-> "",
   leaseEndDate |-> NoDate, status |-> "occupied", propertyType |-> "apartment"]

\* A valid property without an occupant, at a lower rent.
VacantForm ==
  [name |-> "Unit 2", rent |-> "90000", occupant |-> "", occupantEmail |-> "",
   leaseEndDate |-> NoDate, status |-> "vacant", propertyType |-> "apartment"]

\* The edit form after the user changed some of its fields.
EditForms(property) ==
  {[EditFormOf(property) EXCEPT !.name = n, !.occupant = o, !.paymentStatus = ps] :
     n \in {"", property.name}, o \in {"", "Jane"}, ps \in PaymentStatuses}

\* The payment form after the user changed some of its fields.
PaymentForms(property) ==
  [amount : {"", PaymentFormOf(property).amount, "90000"},
   paymentDate : {NoDate, <<2025, 3, 1>>}]

NotifyForms ==
  [subject : {" ", "Rent"},
   message : {"", "Due"},
   type : {"general"},
   recipientEmail : {"", " ", "jane@mail.io"}]

\* Bodies posted to the endpoint: text that is not JSON, null, and objects
\* that have any of to, subject and message, each empty, blank or filled.
RequestBodies ==
  {[kind |-> "invalid"], [kind |-> "null"]}
    \cup {[kind |-> "object", fields |-> f] :
            f \in UNION {[D -> {"", " ", "Rent"}] : D \in SUBSET {"to", "subject", "message"}}}

\* Signup form: two emails with every field right; then also a third with a
\* password of exactly six characters, and forms for each validation message.
AccountForms ==
  {[name |-> "Ann", email |-> e, password |-> "secret1", confirmPassword |-> "secret1"] :
     e \in {"ann@mail.io", DemoEmail}}

SignupForms ==
  AccountForms
    \cup {[name |-> "", email |-> "ann@mail.io", password |-> "secret1",
            confirmPassword |-> "secret1"],
          [name |-> "Ann", email |-> "", password |-> "secret1",
            confirmPassword |-> "secret1"],
          [name |-> "Ann", email |-> "ann@mail.io", password |-> "",
            confirmPassword |-> "secret1"],
          [name |-> "Ann", email |-> "ann@mail.io", password |-> "secret1",
            confirmPassword |-> ""],
          [name |-> "Ann", email |-> "ann@mail.io", password |-> "abc",
            confirmPassword |-> "abc"],
          [name |-> "Ann", email |-> "bob@mail.io", password |-> "abcde",
            confirmPassword |-> "abcde"],
          [name |-> "Ann", email |-> "bob@mail.io", password |-> "abcdef",
            confirmPassword |-> "abcdef"],
          [name |-> "Ann", email |-> "ann@mail.io", password |-> "secret1",
            confirmPassword |-> "secret2"]}

Credentials == {<<DemoEmail, DemoPassword>>, <<DemoEmail, "secret1">>,
                <<"ann@mail.io", "secret1">>, <<"ann@mail.io", "wrong12">>,
                <<"ann@mail.io", "">>}

(***************************************************************************)
(* The steps of one tab.                                                   *)
(***************************************************************************)
\* Logins with both fields filled in.
Login == \E c \in Credentials : c[1] /= "" /\ c[2] /= "" /\ LoginSubmit(c[1], c[2])

LoginAny == \E c \in Credentials : LoginSubmit(c[1], c[2])

LoginDemo == LoginSubmit(DemoEmail, DemoPassword)

\* The signup form passes the form's own validation, so signup() is called.
ValidSignupForm(f) ==
  /\ f.name /= "" /\ f.email /= "" /\ f.password /= "" /\ f.confirmPassword /= ""
  /\ Len(f.password) >= 6
  /\ f.password = f.confirmPassword

Registered(email) == \E i \in 1..Len(users) : users[i].email = email

\* Signups that pass the form's validation, of which at most MaxSignups
\* create an account.
Signup ==
  \E f \in AccountForms :
    /\ ValidSignupForm(f)
    /\ Registered(f.email) \/ Len(users) < MaxSignups
    /\ SignupSubmit(f.name, f.email, f.password, f.confirmPassword)

SignupAny ==
  \E f \in SignupForms : SignupSubmit(f.name, f.email, f.password, f.confirmPassword)

AddProperty == \E formData \in AddForms : AddSubmit(formData)

AddTenantProperty == AddSubmit(TenantForm)

AddAnyProperty ==
  /\ seq.property < MaxFormProps
  /\ \E formData \in AllAddForms : AddSubmit(formData)

DeleteProperty == \E i \in 1..Len(properties) : DeleteClick(properties[i].id)

OpenEdit == \E i \in 1..Len(properties) : OpenDialog("edit", properties[i])

OpenNotify == \E i \in 1..Len(properties) : OpenDialog("notify", properties[i])

OpenPayment == \E i \in 1..Len(properties) : OpenDialog("payment", properties[i])

EditProperty ==
  /\ dialog.kind = "edit"
  /\ \E formData \in EditForms(dialog.property[1]) : EditSubmit(formData)

AddVacantOrTenantProperty == \E formData \in {VacantForm, TenantForm} : AddSubmit(formData)

\* The tenant moves out: the occupant name is cleared, the rest is kept.
RemoveOccupant ==
  /\ dialog.kind = "edit"
  /\ dialog.property[1].occupant /= ""
  /\ EditSubmit([EditFormOf(dialog.property[1]) EXCEPT !.occupant = ""])

MarkOverdue ==
  /\ dialog.kind = "edit"
  /\ EditSubmit([EditFormOf(dialog.property[1]) EXCEPT !.paymentStatus = "overdue"])

RecordPayment ==
  /\ dialog.kind = "payment"
  /\ \E formData \in PaymentForms(dialog.property[1]) : PaymentSubmit(formData)

RecordRentPayment ==
  /\ dialog.kind = "payment"
  /\ PaymentSubmit([PaymentFormOf(dialog.property[1]) EXCEPT !.paymentDate = <<2025, 3, 1>>])

\* One account's first records of each kind: its first property, a first edit
\* of a property still pending, its first payment and its first notification.
AddFirstProperty == properties = <<>> /\ AddSubmit(TenantForm)

MarkPendingOverdue ==
  /\ dialog.kind = "edit"
  /\ dialog.property[1].paymentStatus = "pending"
  /\ MarkOverdue

RecordFirstPayment == payments = <<>> /\ RecordRentPayment

SendNotification == \E formData \in NotifyForms : NotifySubmit(formData)

\* A valid notification with a recipient, so the email endpoint is called.
SendEmailNotification ==
  NotifySubmit([subject |-> "Rent", message |-> "Due", type |-> "general",
                recipientEmail |-> "jane@mail.io"])

SendFirstNotification == notifications = <<>> /\ SendEmailNotification

SendValidNotification ==
  \E e \in {"", "jane@mail.io"} :
    NotifySubmit([subject |-> "Rent", message |-> "Due", type |-> "general",
                  recipientEmail |-> e])

\* The same, where one submission may follow another that is still in flight.
SendOverlappingNotification ==
  NotifySubmitUpTo([subject |-> "Rent", message |-> "Due", type |-> "general",
                    recipientEmail |-> "jane@mail.io"], MaxOverlap)

\* A valid notification without a recipient email: no email call is made.
SendLocalNotification ==
  NotifySubmit([subject |-> "Rent", message |-> "Due", type |-> "general",
                recipientEmail |-> ""])

PostAnyRequest == \E body \in RequestBodies : PostRequest(body)

EmailSucceeds == \E i \in 1..Len(sends) : EmailOk(i)

EmailFails == \E i \in 1..Len(sends) : EmailFail(i)

CloseTimerFires == \E i \in 1..Len(sends) : CloseTimer(i)

(***************************************************************************)
(* Specifications.  Every one starts from a freshly loaded tab over empty  *)
(* storage; they differ in which steps the user takes.                     *)
(***************************************************************************)
\* The add form in full, on the demo account.
NextForms ==
  \/ AuthMount
  \/ LoginDemo
  \/ DashboardEffect
  \/ Reload
  \/ AddAnyProperty
  \/ DeleteProperty

SpecForms == InitForms /\ [][NextForms]_vars

\* Property work of the demo account.
NextProperties ==
  \/ AuthMount
  \/ LoginDemo
  \/ DashboardEffect
  \/ Reload
  \/ AddProperty
  \/ DismissAlert
  \/ DeleteProperty
  \/ OpenEdit
  \/ CloseDialog
  \/ EditProperty

SpecProperties == Init /\ [][NextProperties]_vars

\* Payment work of the demo account.
NextPayments ==
  \/ AuthMount
  \/ LoginDemo
  \/ DashboardEffect
  \/ Reload
  \/ AddTenantProperty
  \/ DeleteProperty
  \/ OpenEdit
  \/ MarkOverdue
  \/ OpenPayment
  \/ CloseDialog
  \/ RecordPayment
  \/ DismissAlert

SpecPayments == Init /\ [][NextPayments]_vars

\* The dashboard's figures over adds, edits, deletes and recorded payments.
NextStats ==
  \/ AuthMount
  \/ LoginDemo
  \/ DashboardEffect
  \/ AddVacantOrTenantProperty
  \/ DeleteProperty
  \/ OpenEdit
  \/ RemoveOccupant
  \/ MarkOverdue
  \/ OpenPayment
  \/ CloseDialog
  \/ RecordRentPayment

SpecStats == Init /\ [][NextStats]_vars

\* Two tabs of the demo account working on its properties and notifications.
NextTabs ==
  \/ AuthMount
  \/ LoginDemo
  \/ DashboardEffect
  \/ OpenSecondTab
  \/ SwitchTab
  \/ AddTenantProperty
  \/ DeleteProperty
  \/ OpenNotify
  \/ SendLocalNotification
  \/ CloseTimerFires

SpecTabs == Init /\ [][NextTabs]_vars

\* Accounts signing up, logging in and out and opening the dashboard, one
\* after another in one browser.
NextOnboarding ==
  \/ AuthMount
  \/ LoginAny
  \/ SignupAny
  \/ handleLogout
  \/ Reload
  \/ VisitDashboard
  \/ DashboardEffect
  \/ AddTenantProperty
  \/ TourTimer
  \/ handleNext
  \/ handlePrevious
  \/ handleComplete
  \/ handleSkip

SpecOnboarding == Init /\ [][NextOnboarding]_vars

\* Notification work of the demo account.
NextNotifications ==
  \/ AuthMount
  \/ LoginDemo
  \/ DashboardEffect
  \/ Reload
  \/ handleLogout
  \/ AddProperty
  \/ DismissAlert
  \/ OpenNotify
  \/ CloseDialog
  \/ SendNotification
  \/ EmailSucceeds
  \/ EmailFails
  \/ CloseTimerFires

SpecNotifications == Init /\ [][NextNotifications]_vars

\* The add form and the payment form with fields left empty.
NextValidation ==
  \/ AuthMount
  \/ LoginDemo
  \/ DashboardEffect
  \/ Reload
  \/ AddProperty
  \/ DismissAlert
  \/ OpenPayment
  \/ CloseDialog
  \/ RecordPayment

SpecValidation == Init /\ [][NextValidation]_vars

\* Notifications by email whose dialog is dismissed while the call is in flight.
NextOverlap ==
  \/ AuthMount
  \/ LoginDemo
  \/ DashboardEffect
  \/ AddTenantProperty
  \/ OpenNotify
  \/ CloseDialog
  \/ SendOverlappingNotification
  \/ EmailSucceeds
  \/ CloseTimerFires

SpecOverlap == Init /\ [][NextOverlap]_vars

\* Two accounts sharing one browser, with edits.
\* Page loads over a stored session that may have been damaged.
NextRestore ==
  \/ AuthMount
  \/ LoginDemo
  \/ DashboardEffect
  \/ Reload
  \/ VisitDashboard
  \/ Signup
  \/ AddTenantProperty
  \/ OpenEdit
  \/ MarkOverdue
  \/ CorruptStoredUser

\* React runs the provider's mount effect after the first render of every load.
SpecRestore == Init /\ [][NextRestore]_vars /\ WF_vars(AuthMount)

NextOwners ==
  \/ AuthMount
  \/ LoginDemo
  \/ Signup
  \/ handleLogout
  \/ DashboardEffect
  \/ AddFirstProperty
  \/ OpenEdit
  \/ MarkPendingOverdue
  \/ OpenPayment
  \/ RecordFirstPayment
  \/ OpenNotify
  \/ CloseDialog
  \/ SendFirstNotification
  \/ EmailSucceeds

SpecOwners == Init /\ [][NextOwners]_vars

\* The endpoint, called by the dialog and by other clients.
NextEndpoint ==
  \/ AuthMount
  \/ LoginDemo
  \/ DashboardEffect
  \/ AddTenantProperty
  \/ OpenNotify
  \/ SendEmailNotification
  \/ EmailSucceeds
  \/ EmailFails
  \/ CloseTimerFires
  \/ PostAnyRequest

SpecEndpoint == Init /\ [][NextEndpoint]_vars

\* Two accounts sharing one browser.
Next ==
  \/ AuthMount
  \/ Login
  \/ Signup
  \/ handleLogout
  \/ DashboardEffect
  \/ AddTenantProperty
  \/ OpenNotify
  \/ OpenPayment
  \/ RecordRentPayment
  \/ SendEmailNotification
  \/ EmailSucceeds
  \/ EmailFails
  \/ CloseTimerFires

Spec == Init /\ [][Next]_vars

(***************************************************************************)
(* Properties of the payment recorder.                                     *)
(***************************************************************************)
IsPayment(r) == "amount" \in DOMAIN r

\* A step in which a payment was recorded, and that payment.
PaymentRecorded == seq'.payment = seq.payment + 1
RecordedPayment == payments'[Len(payments')]

\* C1: recording a payment leaves the property whose id is the payment's
\* propertyId paid, with the payment's date as its lastPaymentDate, whatever
\* its status was and whatever the amount is; every other property is as it was.
C1_RecordMarksPaid ==
  [][PaymentRecorded =>
       /\ Len(properties') = Len(properties)
       /\ \E i \in 1..Len(properties) : properties[i].id = RecordedPayment.propertyId
       /\ \A i \in 1..Len(properties) :
            IF properties[i].id = RecordedPayment.propertyId
            THEN /\ properties'[i].paymentStatus = "paid"
                 /\ properties'[i].lastPaymentDate = RecordedPayment.paymentDate
                 /\ properties'[i].id = properties[i].id
            ELSE properties'[i] = properties[i]]_vars

\* A payment below the rent was recorded for a property that is now paid as of
\* the payment's date, next to another property that is not paid.
C1_Witness ==
  \E i, k \in 1..Len(properties), j \in 1..Len(payments) :
    /\ IsPayment(payments[j])
    /\ payments[j].propertyId = properties[i].id
    /\ payments[j].amount < properties[i].rent
    /\ properties[i].paymentStatus = "paid"
    /\ properties[i].lastPaymentDate = payments[j].paymentDate
    /\ k /= i
    /\ properties[k].paymentStatus = "overdue"

\* One calendar month after an ISO date (the day clamped to the month's end).
OneMonthAfter(dt) ==
  LET ny == IF dt[2] = 12 THEN dt[1] + 1 ELSE dt[1]
      nm == IF dt[2] = 12 THEN 1 ELSE dt[2] + 1
      dim == DaysInMonth(ny, nm)
  IN <<ny, nm, IF dt[3] <= dim THEN dt[3] ELSE dim>>

\* C2: a property on which a payment was recorded has its nextPaymentDue
\* exactly one calendar month after that payment's date.
C2_DueOneMonthAfterPayment ==
  \A i \in 1..Len(properties) :
    properties[i].lastPaymentDate /= NoDate =>
      properties[i].nextPaymentDue = OneMonthAfter(properties[i].lastPaymentDate)

\* C3: the payments item stored for a user holds exactly the payments recorded
\* so far, each once, in the order recorded.
C3_PaymentsDurable ==
  \A u \in UserIds :
    LET items == storedPayments[u].items
    IN /\ \A i \in 1..Len(items) : IsPayment(items[i]) /\ items[i].userId = u
       /\ u = DemoId => /\ Len(items) = seq.payment
                        /\ \A i \in 1..Len(items) : items[i].id = i

(***************************************************************************)
(* Properties of the notification dispatcher.                              *)
(***************************************************************************)
\* The error banner of the open notification dialog appears in this step.
ErrorBannerAppears == dialog.sendStatus /= "error" /\ dialog'.sendStatus = "error"

\* C4: when the email call of a submitted notification fails, the failure
\* shows the error banner and the notification is still appended to the
\* history, in state and in storage.
C4_FailedEmailStillRecorded ==
  [][ErrorBannerAppears =>
       /\ Len(notifications') = Len(notifications) + 1
       /\ notifications'[Len(notifications')].propertyId = dialog.property[1].id
       /\ storedNotifications'[StorageKey(user)] = Stored(notifications')]_vars

\* A notification form that must be rejected.
Blank(formData) == Trim(formData.subject) = "" \/ Trim(formData.message) = ""

\* C10: the notification dialog is never open on a property without an
\* occupant, and a submission with a blank subject or message (or on a property
\* without an occupant) raises an alert and does nothing else: no email call
\* is started, no notification record is created, history and storage stay.
C10_InvalidSendRejected ==
  /\ [](dialog.kind = "notify" => dialog.property[1].occupant /= "")
  /\ [][\A formData \in NotifyForms :
          (NotifySubmit(formData) /\ (dialog.property[1].occupant = "" \/ Blank(formData)))
            => /\ alert' /= ""
               /\ UNCHANGED <<notifications, storedNotifications, sends, seq, dialog>>]_vars

\* The alert of a rejected notification is showing over the dialog.
C10_Witness ==
  /\ alert = "Please fill in all required fields."
  /\ dialog.kind = "notify"
  /\ dialog.property[1].occupant /= ""

(***************************************************************************)
(* Properties of property CRUD.                                            *)
(***************************************************************************)
\* A step in which the delete handler removed a property from the list.
PropertyDeleted ==
  /\ Rendered
  /\ page' = "dashboard"
  /\ ~isLoading'
  /\ Len(properties') = Len(properties) - 1

DeletedId == CHOOSE id \in {properties[i].id : i \in 1..Len(properties)} :
               \A j \in 1..Len(properties') : properties'[j].id /= id

\* C6: deleting a property removes exactly the property with that id from the
\* list in state and in storage and changes no other property, no payment and
\* no notification, in state or in storage.
C6_DeleteRemovesOnlyTarget ==
  [][PropertyDeleted =>
       /\ properties' = Filter(properties, LAMBDA p : p.id /= DeletedId)
       /\ storedProperties'[StorageKey(user)].items =
            Filter(storedProperties[StorageKey(user)].items, LAMBDA p : p.id /= DeletedId)
       /\ \A u \in UserIds \ {StorageKey(user)} : storedProperties'[u] = storedProperties[u]
       /\ UNCHANGED <<payments, notifications, storedPayments, storedNotifications>>]_vars

\* C7: a property added without an occupant name is "paid", one added with an
\* occupant name is "pending", whatever status and other fields were chosen.
C7_AddPaymentStatus ==
  \A i \in 1..Len(properties) :
    properties[i].paymentStatus = IF properties[i].occupant = "" THEN "paid" ELSE "pending"

\* A property added as vacant with an occupant name, and so pending.
C7_Witness ==
  \E i \in 1..Len(properties) :
    /\ properties[i].status = "vacant"
    /\ properties[i].occupant = "Jane"
    /\ properties[i].paymentStatus = "pending"

\* The first day of the month after the local date of t.
FirstDayOfFollowingMonth(t) ==
  IF t.m = 12 THEN <<t.y + 1, 1, 1>> ELSE <<t.y, t.m + 1, 1>>

\* C8: a property added with an occupant has the first day of the month after
\* the current date as nextPaymentDue, on every date and in every zone; one
\* added without an occupant has none.
C8_AddDueFirstOfNextMonth ==
  \A i \in 1..Len(properties) :
    properties[i].nextPaymentDue =
      IF properties[i].occupant /= "" THEN FirstDayOfFollowingMonth(clock) ELSE NoDate

\* A step in which the edit dialog submitted its form.
PropertyEdited(formData) == dialog.kind = "edit" /\ EditSubmit(formData) /\ alert' = ""

\* C9: editing replaces the property with the dialog's id and leaves all other
\* properties as they were; the edited property keeps id, owner, createdAt,
\* lastPaymentDate and nextPaymentDue, and its paymentStatus is the one selected
\* in the form, which is the previous one unless the user selected another.
C9_EditReplacesById ==
  [][\A formData \in (IF dialog.kind = "edit" THEN EditForms(dialog.property[1]) ELSE {}) :
       PropertyEdited(formData) =>
         /\ Len(properties') = Len(properties)
         /\ \A i \in 1..Len(properties) :
              IF properties[i].id = dialog.property[1].id
              THEN /\ properties'[i].id = properties[i].id
                   /\ properties'[i].userId = properties[i].userId
                   /\ properties'[i].createdAt = properties[i].createdAt
                   /\ properties'[i].lastPaymentDate = properties[i].lastPaymentDate
                   /\ properties'[i].nextPaymentDue = properties[i].nextPaymentDue
                   /\ properties'[i].occupant = formData.occupant
                   /\ properties'[i].paymentStatus = formData.paymentStatus
                   /\ formData.paymentStatus = EditFormOf(dialog.property[1]).paymentStatus
                        => properties'[i].paymentStatus = properties[i].paymentStatus
              ELSE properties'[i] = properties[i]]_vars

\* Next to another property, one whose occupant was removed by an edit that
\* left the payment status alone: pending, due date kept, no occupant.
C9_Witness ==
  \E i, k \in 1..Len(properties) :
    /\ k /= i
    /\ dialog.kind = "none"
    /\ properties[i].occupant = ""
    /\ properties[i].paymentStatus = "pending"
    /\ properties[i].nextPaymentDue /= NoDate

(***************************************************************************)
(* Per-user data isolation.                                                *)
(***************************************************************************)
OwnedBy(items, u) == \A i \in 1..Len(items) : items[i].userId = u

\* A notification submission of account u completes in this step.
CompletesFor(u) ==
  \E i \in 1..Len(sends) :
    /\ sends[i].phase = "fetch"
    /\ sends[i].onSendUser.id = u
    /\ Len(sends') < Len(sends) \/ sends'[i].phase = "timer"

NotificationAccepted == seq'.notification = seq.notification + 1

\* The notification with this id is in the stored history of account u.
StoredNotification(items, id) == \E i \in 1..Len(items) : items[i].id = id

\* C11: the step that accepts a valid notification writes its record to the
\* stored history of the sender, whether or not an email call was started and
\* whatever becomes of that call.
C11_LocalRecordFirst ==
  [][NotificationAccepted =>
       StoredNotification(storedNotifications'[StorageKey(user)].items,
                          seq'.notification)]_vars

(***************************************************************************)
(* Properties of signup, login and logout.                                 *)
(***************************************************************************)
\* C12: signup with an email that is already registered fails with "Email
\* already registered" and leaves the registered users, the stored session
\* and the current user as they were.
C12_DuplicateSignupRejected ==
  [][\A f \in SignupForms :
       (/\ SignupSubmit(f.name, f.email, f.password, f.confirmPassword)
        /\ ValidSignupForm(f)
        /\ Registered(f.email))
         => /\ authError' = "Email already registered"
            /\ UNCHANGED <<users, storedUser, user>>]_vars

\* The signup form shows the duplicate-email error over a registered account
\* that is still the current user.
C12_Witness ==
  /\ authError = "Email already registered"
  /\ page = "login"
  /\ user /= NoUser
  /\ Registered(user.email)


\* C13: signup with an unregistered email appends exactly one account, with
\* the email, password and name of the form, to the registered users and makes
\* it the session, in state and in storage, with isNewUser = TRUE; a login
\* with the email and password of a registered account makes that account the
\* session with isNewUser = FALSE.
C13_SignupThenLogin ==
  /\ [][\A f \in SignupForms :
          (/\ SignupSubmit(f.name, f.email, f.password, f.confirmPassword)
           /\ ValidSignupForm(f)
           /\ ~Registered(f.email))
            => /\ Len(users') = Len(users) + 1
               /\ SubSeq(users', 1, Len(users)) = users
               /\ users'[Len(users')].email = f.email
               /\ users'[Len(users')].password = f.password
               /\ users'[Len(users')].name = f.name
               /\ user' = [id |-> users'[Len(users')].id, email |-> f.email,
                           name |-> f.name, isNewUser |-> TRUE]
               /\ storedUser' = user']_vars
  /\ [][\A c \in Credentials :
          (/\ LoginSubmit(c[1], c[2])
           /\ \E i \in 1..Len(users) : users[i].email = c[1] /\ users[i].password = c[2])
            => /\ \E i \in 1..Len(users) :
                    /\ users[i].email = c[1]
                    /\ user' = [id |-> users[i].id, email |-> users[i].email,
                                name |-> users[i].name, isNewUser |-> FALSE]
               /\ storedUser' = user'
               /\ users' = users]_vars

\* An account that signed up is on the dashboard again after a login: its
\* session, in state and in storage, is no longer flagged new.
C13_Witness ==
  /\ page = "dashboard"
  /\ \E i \in 1..Len(users) : users[i].id = user.id
  /\ ~user.isNewUser
  /\ storedUser = user


\* The pair is the email and password of a registered account.
MatchesAccount(email, password) ==
  \E i \in 1..Len(users) : users[i].email = email /\ users[i].password = password

LoggedOut == Rendered /\ page' = "login"

\* C15: logging out from the dashboard removes the stored current user and
\* leaves the auth state without a user, and changes neither the registered
\* users nor any account's stored data; from then on the auth state gets a user
\* only by a successful login or signup.
C15_LogoutClearsSession ==
  /\ [][LoggedOut =>
          /\ storedUser' = NoUser
          /\ user' = NoUser
          /\ UNCHANGED <<users, storedProperties, storedPayments, storedNotifications>>]_vars
  /\ [][(user = NoUser /\ user' /= NoUser /\ ~authLoading) =>
          /\ page = "login"
          /\ page' = "dashboard"
          /\ storedUser' = user']_vars


(***************************************************************************)
(* The session gate of the dashboard.                                      *)
(***************************************************************************)
\* The dashboard is past its spinner: lists, stats and dialogs are on screen.
ShowsData == page = "dashboard" /\ ~authLoading /\ ~isLoading

\* C16: whenever the dashboard shows its data there is a current user; with
\* no current user the collections are empty, no step changes any account's
\* stored data, and the dashboard's effect, once auth loading is over,
\* redirects to the login page without loading or storing anything.
C16_DashboardGated ==
  /\ [](ShowsData => user /= NoUser)
  /\ [](user = NoUser =>
          properties = <<>> /\ payments = <<>> /\ notifications = <<>>)
  /\ [][user = NoUser =>
          UNCHANGED <<storedProperties, storedPayments, storedNotifications>>]_vars
  /\ [][(user = NoUser /\ ~authLoading /\ page = "dashboard" /\ effectPending /\ ~effectPending')
          => /\ page' = "login"
             /\ isLoading'
             /\ UNCHANGED <<properties, payments, notifications, storageVars>>]_vars

\* The dashboard was opened without a session over an account's stored data:
\* auth loading is over, nothing is shown, the redirect is about to run.
C16_Witness ==
  /\ page = "dashboard"
  /\ ~authLoading
  /\ user = NoUser
  /\ effectPending
  /\ isLoading
  /\ \E u \in UserIds : storedProperties[u].items /= <<>>


(***************************************************************************)
(* Lease expiry.                                                           *)
(***************************************************************************)
\* The least whole number of days that covers the time from now to midnight
\* UTC of an ISO date.
DaysUntil(dt) ==
  LET diff == DateGetTime(dt) - NowGetTime(clock, tz)
  IN CHOOSE n \in -800..800 : n * 24 >= diff /\ (n - 1) * 24 < diff

\* A lease end date that is expiring soon.
ExpiringSoon(dt) == dt /= NoDate /\ 0 < DaysUntil(dt) /\ DaysUntil(dt) <= 30

\* C17: days-until-expiry of a lease end date is ceil((leaseEndDate - now) /
\* 1 day), the lease is expiring soon exactly when 0 < days <= 30 (never for a
\* missing date), and for every property the warning on its card and its
\* being counted in the dashboard's expiring-soon figure are that predicate.
C17_LeaseExpiry ==
  /\ \A i \in 1..Len(properties) :
       LET dt == properties[i].leaseEndDate
       IN /\ dt /= NoDate => getDaysUntilExpiry(dt) = <<DaysUntil(dt)>>
          /\ dt = NoDate => getDaysUntilExpiry(dt) = <<>>
          /\ isLeaseExpiringSoon(dt) = ExpiringSoon(dt)
          /\ LeaseWarningShown(properties[i]) = ExpiringSoon(dt)
  /\ expiringSoon(properties) =
       Cardinality({i \in 1..Len(properties) : ExpiringSoon(properties[i].leaseEndDate)})


(***************************************************************************)
(* Derived metrics.                                                        *)
(***************************************************************************)
\* The indices of the properties on screen that satisfy a condition.
WithOccupant == {i \in 1..Len(properties) : properties[i].occupant /= ""}
Overdue == {i \in 1..Len(properties) : properties[i].paymentStatus = "overdue"}

RECURSIVE RentOf(_)
RentOf(indices) ==
  IF indices = {} THEN 0
  ELSE LET i == CHOOSE j \in indices : TRUE
       IN properties[i].rent + RentOf(indices \ {i})

\* C18: in every state, so after every add, edit, delete and recorded
\* payment, the figures computed from the current properties are: total = the
\* number of properties, occupied = the number with an occupant, vacant =
\* total - occupied (neither negative), total rent = the sum of the rents,
\* overdue = the number whose paymentStatus is "overdue".
C18_DerivedMetrics ==
  /\ totalProperties(properties) = Len(properties)
  /\ occupiedProperties(properties) = Cardinality(WithOccupant)
  /\ vacantProperties(properties) = Len(properties) - Cardinality(WithOccupant)
  /\ occupiedProperties(properties) + vacantProperties(properties) = totalProperties(properties)
  /\ occupiedProperties(properties) >= 0
  /\ vacantProperties(properties) >= 0
  /\ totalRent(properties) = RentOf(1..Len(properties))
  /\ overduePayments(properties) = Cardinality(Overdue)

\* After an edit that removed the occupant of an occupied property, an edit
\* that marked one overdue and a recorded payment: one property occupied, one
\* without an occupant yet with status "occupied".
C18_Witness ==
  /\ ShowsData
  /\ Len(payments) = 1
  /\ occupiedProperties(properties) = 1
  /\ vacantProperties(properties) = 1
  /\ overduePayments(properties) = 1
  /\ \E i \in 1..Len(properties) :
       properties[i].occupant = "" /\ properties[i].status = "occupied"


(***************************************************************************)
(* Two tabs of one user.                                                   *)
(***************************************************************************)
IdsOf(items) == {items[i].id : i \in 1..Len(items)}

\* The ids of the records created in this step.
NewPropertyIds == IF seq'.property > seq.property THEN {seq'.property} ELSE {}
NewNotificationIds == IF seq'.notification > seq.notification THEN {seq'.notification} ELSE {}

\* C19: a write of a tab to the stored properties or notifications of its
\* user leaves in storage exactly that tab's own collection after the write:
\* what the tab held before plus what it created in the step, whatever another
\* tab stored in between; the other tab's state is not touched.  So of two
\* tabs that loaded the same collection and then each wrote, storage holds the
\* second writer's collection and the first writer's change is not in it.
C19_LastWriteWins ==
  [][/\ storedProperties' /= storedProperties =>
          /\ storedProperties'[StorageKey(user)] = Stored(properties')
          /\ IdsOf(properties') \subseteq IdsOf(properties) \cup NewPropertyIds
          /\ otherTab' = otherTab
     /\ storedNotifications' /= storedNotifications =>
          /\ storedNotifications'[StorageKey(user)] = Stored(notifications')
          /\ IdsOf(notifications') \subseteq IdsOf(notifications) \cup NewNotificationIds
          /\ otherTab' = otherTab]_vars

\* Two tabs of one user each added a property after loading: storage holds
\* the list of the tab in front, and the property the other tab added is in
\* that tab's list but not in storage.
C19_Witness ==
  /\ otherTab /= <<>>
  /\ ShowsData
  /\ otherTab[1].user = user
  /\ ~otherTab[1].isLoading
  /\ properties /= <<>>
  /\ storedProperties[StorageKey(user)] = Stored(properties)
  /\ IdsOf(otherTab[1].properties) /= {}
  /\ IdsOf(otherTab[1].properties) \cap IdsOf(properties) = {}


(***************************************************************************)
(* Onboarding.                                                             *)
(***************************************************************************)
\* The dashboard effect runs for a session that signup flagged new: the
\* account's first dashboard visit.
FirstVisit ==
  /\ page = "dashboard"
  /\ user.isNewUser
  /\ effectPending
  /\ ~effectPending'

\* C20: on the first dashboard visit of every account that signed up the tour
\* is set to open, also when an earlier account of the same browser completed
\* or skipped it; the tour is never set to open or open for a session that
\* came from a login.
C20_SignupShowsTour ==
  /\ [][FirstVisit => tour' = "timer"]_vars
  /\ [](tour /= "none" => user.isNewUser)


(***************************************************************************)
(* When the email endpoint is called.                                      *)
(***************************************************************************)
\* A step in which the dialog accepted the valid form formData.
NotificationSent(formData) == NotifySubmit(formData) /\ NotificationAccepted

\* The email calls that are in flight.
CallsInFlight(ss) == {i \in 1..Len(ss) : ss[i].phase = "fetch"}

\* C21: a valid send calls the email endpoint exactly when the recipient email
\* is not blank, with to, subject and message of the form and the name and
\* occupant of the property; with a blank recipient email no call is made and
\* the notification is in the history and in storage with status "sent".  No
\* other step starts a call.
C21_EmailCallIffRecipient ==
  /\ [][\A f \in NotifyForms : NotificationSent(f) =>
          LET property == dialog.property[1]
              e == sends'[Len(sends')]
          IN /\ Len(sends') = Len(sends) + 1
             /\ IF Trim(f.recipientEmail) /= ""
                THEN /\ e.phase = "fetch"
                     /\ e.request.kind = "object"
                     /\ e.request.fields =
                          [to |-> f.recipientEmail, subject |-> f.subject,
                           message |-> f.message, propertyName |-> property.name,
                           occupantName |-> property.occupant]
                ELSE /\ e.phase /= "fetch"
                     /\ e.request = NoRequest
                     /\ Len(notifications') = Len(notifications) + 1
                     /\ notifications'[Len(notifications')].id = seq'.notification
                     /\ notifications'[Len(notifications')].status = "sent"
                     /\ storedNotifications'[user.id] = Stored(notifications')]_vars
  /\ [][Cardinality(CallsInFlight(sends')) > Cardinality(CallsInFlight(sends))
          => NotificationAccepted]_vars

\* The call for a notification to jane@mail.io about Unit 1 is in flight.
C21_Witness ==
  \E i \in 1..Len(sends) :
    /\ sends[i].phase = "fetch"
    /\ sends[i].request.fields.to = "jane@mail.io"
    /\ sends[i].request.fields.propertyName = "Unit 1"
    /\ notifications = <<>>


(***************************************************************************)
(* The answers of the dispatch endpoint.                                   *)
(***************************************************************************)
\* The body can be read as an object, and the field is absent from it or empty.
MissingOrEmpty(name) == name \notin DOMAIN request.fields \/ request.fields[name] = ""

InvalidSignupForm(f) ==
  \/ f.name = "" \/ f.email = "" \/ f.password = "" \/ f.confirmPassword = ""
  \/ Len(f.password) < 6
  \/ f.password /= f.confirmPassword

ValidationMessages ==
  {"Please fill in all fields", "Password must be at least 6 characters",
   "Passwords do not match"}

\* C23: submitting a signup form with an empty field, a short password or a
\* differing confirmation shows one of the form's validation errors and leaves
\* the registered users, the session (in state and in storage) and the page
\* as they were; a form without these faults never gets a validation error.
C23_InvalidSignupRejected ==
  [][\A f \in SignupForms :
       SignupSubmit(f.name, f.email, f.password, f.confirmPassword) =>
         IF InvalidSignupForm(f)
         THEN /\ authError' \in ValidationMessages
              /\ UNCHANGED <<users, user, storedUser, page, nowMs>>
         ELSE authError' \notin ValidationMessages]_vars

\* With one account registered and nobody's session stored, a form whose
\* confirmation differs was refused.
C23_Witness ==
  /\ authError = "Passwords do not match"
  /\ Len(users) = 1
  /\ storedUser = NoUser
  /\ page = "login"


(***************************************************************************)
(* Validation of the add form and of the payment form.                     *)
(***************************************************************************)
\* The add form lacks a name, a rent or a property type.
IncompleteAddForm(f) == f.name = "" \/ f.rent = "" \/ f.propertyType = ""

\* The payment form lacks an amount or a payment date.
IncompletePaymentForm(f) == f.amount = "" \/ f.paymentDate = NoDate

\* C24: submitting the add form without a name, a rent or a property type
\* creates no property, leaves the collection in state and in storage as it
\* was and keeps the form as it was filled in; submitting the payment form
\* without an amount or a date creates no payment and changes no property.
C24_IncompleteFormsRejected ==
  [][/\ \A f \in AddForms :
          (AddSubmit(f) /\ IncompleteAddForm(f)) =>
             /\ UNCHANGED <<properties, storedProperties, seq>>
             /\ addForm' = f
             /\ alert' /= ""
     /\ dialog.kind = "payment" =>
          \A f \in PaymentForms(dialog.property[1]) :
            (PaymentSubmit(f) /\ IncompletePaymentForm(f)) =>
               /\ UNCHANGED <<payments, storedPayments, properties, storedProperties, seq>>
               /\ alert' /= ""]_vars

\* The payment form was refused while the add form still holds a refused
\* entry without a property type; the one property is unpaid and no payment
\* exists.
C24_Witness ==
  /\ alert = "Amount and payment date are required"
  /\ addForm.name = "Unit 1"
  /\ addForm.rent = "150000"
  /\ addForm.propertyType = ""
  /\ Len(properties) = 1
  /\ properties[1].paymentStatus = "pending"
  /\ payments = <<>>


(***************************************************************************)
(* Agreement of the collections on screen with the stored ones.            *)
(***************************************************************************)
\* The collection stored under an item, empty when the item does not exist.
StoredItems(item) == IF item.present THEN item.items ELSE <<>>

\* C25: whenever the dashboard is on screen for a logged-in user and no
\* operation is under way, each of the three collections in memory equals the
\* one stored under that user's key, so that a reload would show the same.
C25_StoreConsistency ==
  [](Rendered /\ user /= NoUser /\ sends = <<>> =>
       /\ properties = StoredItems(storedProperties[user.id])
       /\ payments = StoredItems(storedPayments[user.id])
       /\ notifications = StoredItems(storedNotifications[user.id]))


(***************************************************************************)
(* Sends that overlap.                                                     *)
(***************************************************************************)
\* C26: on the dashboard of a logged-in user, once no email call is in flight
\* every notification that was submitted is in the history and in storage,
\* also when a dialog was dismissed during its call and another send was
\* started before the first completed.
C26_NoNotificationLost ==
  [](page = "dashboard" /\ user /= NoUser /\ CallsInFlight(sends) = {} =>
       \A id \in 1..seq.notification :
         /\ StoredNotification(notifications, id)
         /\ StoredNotification(storedNotifications[user.id].items, id))


(***************************************************************************)
(* The registered users.                                                   *)
(***************************************************************************)
\* C27: no two registered accounts have the same email; the registered users
\* change only by a signup that appends one account and logs it in, so login,
\* logout and a refused signup leave every account as it is.
C27_UsersUniqueAndGrowing ==
  /\ [](\A i, j \in 1..Len(users) : users[i].email = users[j].email => i = j)
  /\ [][users' /= users =>
          /\ Len(users') = Len(users) + 1
          /\ SubSeq(users', 1, Len(users)) = users
          /\ page = "login"
          /\ page' = "dashboard"
          /\ authError' = ""
          /\ user'.email = users'[Len(users')].email]_vars

\* With two accounts registered and after a logout, a signup with a
\* registered email was refused.
C27_Witness ==
  /\ Len(users) = 2
  /\ authError = "Email already registered"
  /\ storedUser = NoUser
  /\ page = "login"


(***************************************************************************)
(* The owner stamped on a record.                                          *)
(***************************************************************************)
\* The record with this id, in a list that has one.
RecordWith(items, id) == items[CHOOSE i \in 1..Len(items) : items[i].id = id]

\* The notifications stored under u after the step that were not there before.
NewlyStored(u) == IdsOf(storedNotifications'[u].items) \ IdsOf(storedNotifications[u].items)

LastStep == Len(onboardingSteps) - 1

\* C29: once the tour was skipped or completed the browser keeps the flag and
\* no mount, remount or reload opens the tour or arms its timer again; the step
\* index always names one of the defined steps; Next at the last step and Back
\* at the first step change nothing.
C29_TourNeverReopens ==
  /\ [][handleSkip \/ handleComplete => onboardingComplete']_vars
  /\ [][onboardingComplete => onboardingComplete']_vars
  /\ [](onboardingComplete => tour = "none")
  /\ [](currentStep \in 0..LastStep)
  /\ [][handleNext /\ currentStep = LastStep => UNCHANGED vars]_vars
  /\ [][handlePrevious /\ currentStep = 0 => UNCHANGED vars]_vars

\* The tour was skipped or completed earlier in this browser, and the
\* dashboard has just mounted again for a session of a new user: its effect is
\* about to mount the tour component.
C29_Witness ==
  /\ onboardingComplete
  /\ page = "dashboard"
  /\ ~authLoading
  /\ effectPending
  /\ user /= NoUser
  /\ user.isNewUser


\* C30: the provider's mount effect makes a stored user that parses the
\* current user and keeps the item; removes an item that does not parse and
\* leaves the app without a user; ends auth loading in every case; every load
\* reaches the end of auth loading; and the dashboard effect runs, loads or
\* redirects only after it.
C30_SessionRestore ==
  /\ [][AuthMount =>
          /\ ~authLoading'
          /\ storedUser \notin {NoUser, Unparseable} =>
               user' = storedUser /\ storedUser' = storedUser
          /\ storedUser = Unparseable => user' = NoUser /\ storedUser' = NoUser
          /\ storedUser = NoUser => user' = NoUser /\ storedUser' = NoUser]_vars
  /\ [](authLoading => ENABLED AuthMount)
  /\ (authLoading ~> ~authLoading)
  /\ [][DashboardEffect => ~authLoading]_vars
  /\ [](authLoading /\ page = "dashboard" =>
          effectPending /\ isLoading /\ properties = <<>>)
  /\ [][authLoading /\ authLoading' => page' = page \/ VisitDashboard]_vars

\* The demo account added a property, its stored session was damaged, and the
\* next load removed the item and left the app without a user.
C30_Witness ==
  /\ ~authLoading
  /\ user = NoUser
  /\ storedUser = NoUser
  /\ storedProperties[DemoId].present

====
